---- MODULE Spec2Model ----
(***************************************************************************)
(* A model of cmd/wow/main.go: the navigation service that loads a tiled   *)
(* navmesh (loadMap), and answers POST /path and POST /closest with the    *)
(* detour query engine.  Three specifications share the module:            *)
(*   SpecCoords  the two coordinate conversions, applied to a vector;      *)
(*   SpecLoad    loadMap's iteration over the tile grid;                   *)
(*   Spec        the HTTP handlers, one goroutine per request.             *)
(***************************************************************************)
EXTENDS Integers, Sequences, FiniteSets, TLC

VARIABLES
    vec, vec0, trail,                       \* SpecCoords
    fs, lx, ly, mesh, opened, loadpc,       \* SpecLoad
    nav, running, exitBy, pc, body, loc, resp, log   \* Spec

coordVars == <<vec, vec0, trail>>
loadVars  == <<fs, lx, ly, mesh, opened, loadpc>>
srvVars   == <<nav, running, exitBy, pc, body, loc, resp, log>>
vars      == <<coordVars, loadVars, srvVars>>

(***************************************************************************)
(* Bounds of the model.                                                    *)
(***************************************************************************)
MaxCoord  == 4      \* vector components of SpecCoords range over 0..MaxCoord
MaxOps    == 3      \* conversions applied in a row in SpecCoords
MaxReqs   == 2      \* requests the server handles (concurrently) in Spec
MaxPoints == 2      \* points in one /closest request

(***************************************************************************)
(* Coordinate conversions.  d3.Vec3 is a slice: both functions assign the  *)
(* components of their argument one after the other and return it.         *)
(***************************************************************************)
\* FromWowCoords without ox: the last assignment reads the new in[0]
FromWowCoordsNoSave(in) ==
    LET a == [in EXCEPT ![1] = in[2]]
        b == [a  EXCEPT ![2] = a[3]]
        c == [b  EXCEPT ![3] = b[1]]
    IN  c

FromWowCoords(in) ==
    LET ox == in[1]
        a  == [in EXCEPT ![1] = in[2]]
        b  == [a  EXCEPT ![2] = a[3]]
        c  == [b  EXCEPT ![3] = ox]
    IN  c

ToWowCoords(in) ==
    LET oz == in[3]
        a  == [in EXCEPT ![3] = in[2]]
        b  == [a  EXCEPT ![2] = a[1]]
        c  == [b  EXCEPT ![1] = oz]
    IN  c

Vector3ToVec3(in) == <<in.X, in.Y, in.Z>>

Vec3ToVector3(in) == [X |-> in[1], Y |-> in[2], Z |-> in[3]]

(***************************************************************************)
(* The query engine (package detour), as main.go uses it.                  *)
(* The mesh is a set of polygons, each with its reference, the point of    *)
(* its surface and its flags, and the pairs of polygons that are linked.   *)
(***************************************************************************)
Abs(x) == IF x < 0 THEN -x ELSE x

RECURSIVE BitAnd(_, _)
BitAnd(a, b) ==
    IF a = 0 \/ b = 0 THEN 0
    ELSE (IF a % 2 = 1 /\ b % 2 = 1 THEN 1 ELSE 0) + 2 * BitAnd(a \div 2, b \div 2)

WithinExtents(center, p, extents) ==
    \A i \in 1..3 : Abs(center[i] - p[i]) <= extents[i]

PassFilter(filter, flags) ==
    /\ BitAnd(flags, filter.include) # 0
    /\ BitAnd(flags, filter.exclude) = 0

DistSqr(a, b) ==
    (a[1]-b[1])*(a[1]-b[1]) + (a[2]-b[2])*(a[2]-b[2]) + (a[3]-b[3])*(a[3]-b[3])

IsValidPolyRef(m, ref) == \E p \in m.polys : p.ref = ref

PolyOf(m, ref) == CHOOSE p \in m.polys : p.ref = ref

\* status, polygon and nearest point; no polygon within the extents is a
\* success with the null reference 0.
FindNearestPoly(m, center, extents, filter) ==
    LET cand == {p \in m.polys : /\ WithinExtents(center, p.at, extents)
                                 /\ PassFilter(filter, p.flags)}
    IN  IF cand = {}
        THEN [status |-> "success", ref |-> 0, pt |-> <<0, 0, 0>>]
        ELSE LET n == CHOOSE p \in cand :
                        \A q \in cand : DistSqr(center, p.at) <= DistSqr(center, q.at)
             IN  [status |-> "success", ref |-> n.ref, pt |-> n.at]

\* the corridor of polygons from startRef to endRef, cut to the buffer's length
FindPath(m, startRef, endRef, cap) ==
    IF ~IsValidPolyRef(m, startRef) \/ ~IsValidPolyRef(m, endRef)
    THEN [status |-> "failed", path |-> <<>>]
    ELSE LET whole == IF startRef = endRef THEN <<startRef>>
                      ELSE IF {startRef, endRef} \in m.links THEN <<startRef, endRef>>
                      ELSE <<>>
         IN  [status |-> "success",
              path |-> IF Len(whole) > cap THEN SubSeq(whole, 1, cap) ELSE whole]

\* the points of the taut path through the corridor
FindStraightPath(m, startPos, endPos, path, cap) ==
    IF path = <<>> \/ \E i \in 1..Len(path) : ~IsValidPolyRef(m, path[i])
    THEN [status |-> "failed", pts |-> <<>>]
    ELSE LET first == PolyOf(m, path[1]).at
             last  == PolyOf(m, path[Len(path)]).at
             whole == IF first = last THEN <<first>> ELSE <<first, last>>
         IN  [status |-> "success",
              pts |-> IF Len(whole) > cap THEN SubSeq(whole, 1, cap) ELSE whole]

\* What FindPath may return when another goroutine runs FindPath on the same
\* NavMeshQuery at the same time (both write its node pool and its open list):
\* a failure, a panic of the goroutine, no corridor, the corridor an
\* undisturbed call returns, or a corridor that is some polygon of the mesh.
RacedFindPath(m, startRef, endRef, cap) ==
    {[status |-> "failed", path |-> <<>>], [status |-> "panic", path |-> <<>>],
     [status |-> "success", path |-> <<>>], FindPath(m, startRef, endRef, cap)}
    \cup {[status |-> "success", path |-> <<p.ref>>] : p \in m.polys}

StatusFailed(status) == status = "failed"

(***************************************************************************)
(* The world of the service: the mesh loadMap assembled, and the points    *)
(* requests are made of (caller frame).                                    *)
(***************************************************************************)
maxPolys == 256

World ==
    [polys |-> {[ref |-> 1, at |-> <<20, 28, 10>>, flags |-> 1],
                [ref |-> 2, at |-> <<50, 58, 40>>, flags |-> 1],
                [ref |-> 3, at |-> <<80, 88, 70>>, flags |-> 1]},
     links |-> {{1, 2}}]

PtA   == [X |-> 10,  Y |-> 20,  Z |-> 30]     \* on polygon 1
PtB   == [X |-> 40,  Y |-> 50,  Z |-> 60]     \* on polygon 2, linked to 1
PtC   == [X |-> 70,  Y |-> 80,  Z |-> 90]     \* on polygon 3, linked to none
PtFar == [X |-> 100, Y |-> 200, Z |-> 300]    \* no polygon within the extents

PathStarts    == {PtA, PtFar}
PathEnds      == {PtA, PtB, PtC, PtFar}
ClosestPoints == {PtA, PtFar}

\* err.Error() of a body json.Decoder rejects: "EOF" (an empty body), and a
\* syntax error naming the offending character in single quotes, as in
\*   invalid character '"' after object key      (body {"start" "x"})
\* shortened here to  char '"'.
DecodeErrors == { <<"E", "O", "F">>, <<"c", "h", "a", "r", " ", "'", "\"", "'">> }

ZeroVector3 == [X |-> 0, Y |-> 0, Z |-> 0]

NoBody == [kind |-> "none", ok |-> FALSE, err |-> <<>>,
           start |-> ZeroVector3, end |-> ZeroVector3, pts |-> <<>>]

\* the bodies of POST /path: one that does not decode, or a PathRequest
PathBodies ==
    {[NoBody EXCEPT !.kind = "path", !.err = e] : e \in DecodeErrors}
    \cup {[NoBody EXCEPT !.kind = "path", !.ok = TRUE, !.start = s, !.end = e] :
             s \in PathStarts, e \in PathEnds}

SeqsUpTo(S, n) == UNION {[1..k -> S] : k \in 0..n}

\* the bodies of POST /closest: one that does not decode, or a []Vector3
ClosestBodies ==
    {[NoBody EXCEPT !.kind = "closest", !.err = e] : e \in DecodeErrors}
    \cup {[NoBody EXCEPT !.kind = "closest", !.ok = TRUE, !.pts = p] :
             p \in SeqsUpTo(ClosestPoints, MaxPoints)}

\* fmt.Sprintf(`{"error": "%s"}`, err): the message is pasted between the quotes
ErrorBody(err) ==
    <<"{", "\"", "e", "r", "r", "o", "r", "\"", ":", " ", "\"">> \o err \o <<"\"", "}">>

(***************************************************************************)
(* A reader of JSON text for objects whose values are strings:             *)
(* the keys of the object, or not an object at all.                        *)
(***************************************************************************)
JsonEscapes == {"\"", "\\", "/", "b", "f", "n", "r", "t"}

RECURSIVE JsonScan(_, _, _, _, _)
JsonScan(s, i, st, cur, keys) ==
    IF i > Len(s) THEN [ok |-> st = "end", keys |-> keys]
    ELSE LET c == s[i] IN
      CASE st = "start" ->
             IF c = " " THEN JsonScan(s, i+1, st, cur, keys)
             ELSE IF c = "{" THEN JsonScan(s, i+1, "key", cur, keys)
             ELSE [ok |-> FALSE, keys |-> keys]
        [] st = "key" ->
             IF c = " " THEN JsonScan(s, i+1, st, cur, keys)
             ELSE IF c = "\"" THEN JsonScan(s, i+1, "inkey", <<>>, keys)
             ELSE [ok |-> FALSE, keys |-> keys]
        [] st = "inkey" ->
             IF c = "\"" THEN JsonScan(s, i+1, "colon", cur, keys \cup {cur})
             ELSE IF c = "\\" THEN
                  IF i < Len(s) /\ s[i+1] \in JsonEscapes
                  THEN JsonScan(s, i+2, st, cur \o <<c, s[i+1]>>, keys)
                  ELSE [ok |-> FALSE, keys |-> keys]
             ELSE JsonScan(s, i+1, st, Append(cur, c), keys)
        [] st = "colon" ->
             IF c = " " THEN JsonScan(s, i+1, st, cur, keys)
             ELSE IF c = ":" THEN JsonScan(s, i+1, "val", cur, keys)
             ELSE [ok |-> FALSE, keys |-> keys]
        [] st = "val" ->
             IF c = " " THEN JsonScan(s, i+1, st, cur, keys)
             ELSE IF c = "\"" THEN JsonScan(s, i+1, "inval", cur, keys)
             ELSE [ok |-> FALSE, keys |-> keys]
        [] st = "inval" ->
             IF c = "\"" THEN JsonScan(s, i+1, "after", cur, keys)
             ELSE IF c = "\\" THEN
                  IF i < Len(s) /\ s[i+1] \in JsonEscapes
                  THEN JsonScan(s, i+2, st, cur, keys)
                  ELSE [ok |-> FALSE, keys |-> keys]
             ELSE JsonScan(s, i+1, st, cur, keys)
        [] st = "after" ->
             IF c = " " THEN JsonScan(s, i+1, st, cur, keys)
             ELSE IF c = "," THEN JsonScan(s, i+1, "key", cur, keys)
             ELSE IF c = "}" THEN JsonScan(s, i+1, "end", cur, keys)
             ELSE [ok |-> FALSE, keys |-> keys]
        [] OTHER ->
             IF c = " " THEN JsonScan(s, i+1, st, cur, keys)
             ELSE [ok |-> FALSE, keys |-> keys]

IsJsonObjectWithKey(s, key) ==
    LET r == JsonScan(s, 1, "start", <<>>, {})
    IN  r.ok /\ key \in r.keys

(***************************************************************************)
(* SpecCoords: the conversions applied, in any order, to one vector.       *)
(***************************************************************************)
CoordIdle == vec = <<0, 0, 0>> /\ vec0 = <<0, 0, 0>> /\ trail = <<>>

LoadIdle ==
    /\ fs = <<>> /\ lx = 0 /\ ly = 0 /\ mesh = <<>> /\ opened = <<>>
    /\ loadpc = "idle"

Reqs == 1..MaxReqs

NoLoc == [start |-> <<0, 0, 0>>, end |-> <<0, 0, 0>>, startRef |-> 0, endRef |-> 0,
          path |-> <<>>, i |-> 0, res |-> <<>>, inq |-> 0, raced |-> FALSE]

NoResp == [status |-> 0, raw |-> <<>>, points |-> <<>>]

NoLog == [engineIn |-> <<>>, engineOut |-> <<>>, calls |-> 0, failed |-> FALSE]

\* NewNav: the mesh, the one NavMeshQuery made for it, the filter, the extents
NewNav ==
    [mesh    |-> World,
     query   |-> [id |-> 1, maxNodes |-> 65535],
     filter  |-> [include |-> 5, exclude |-> 10],
     extents |-> <<6, 6, 6>>]

SrvIdle ==
    /\ nav = NewNav /\ running = FALSE /\ exitBy = 0
    /\ pc = [r \in Reqs |-> "idle"]
    /\ body = [r \in Reqs |-> NoBody]
    /\ loc = [r \in Reqs |-> NoLoc]
    /\ resp = [r \in Reqs |-> NoResp]
    /\ log = [r \in Reqs |-> NoLog]

CoordInit ==
    /\ vec0 \in [1..3 -> 0..MaxCoord]
    /\ vec = vec0
    /\ trail = <<>>
    /\ LoadIdle /\ SrvIdle

ApplyFromWowCoords ==
    /\ Len(trail) < MaxOps
    /\ vec' = FromWowCoords(vec)
    /\ trail' = Append(trail, "from")
    /\ UNCHANGED <<vec0, loadVars, srvVars>>

ApplyToWowCoords ==
    /\ Len(trail) < MaxOps
    /\ vec' = ToWowCoords(vec)
    /\ trail' = Append(trail, "to")
    /\ UNCHANGED <<vec0, loadVars, srvVars>>

CoordNext == ApplyFromWowCoords \/ ApplyToWowCoords

SpecCoords == CoordInit /\ [][CoordNext]_vars

\* C6: FromWowCoords yields (y, z, x), ToWowCoords yields (z, x, y), and
\* ToWowCoords after FromWowCoords gives the point back, component for
\* component.
C6_Permutation ==
    /\ trail = <<"from">> => vec = <<vec0[2], vec0[3], vec0[1]>>
    /\ trail = <<"to">> => vec = <<vec0[3], vec0[1], vec0[2]>>
    /\ trail = <<"from", "to">> => vec = vec0

C6_Witness ==
    /\ trail = <<"from", "to">>
    /\ vec0 = <<1, 2, 3>>
    /\ vec = vec0

(***************************************************************************)
(* Spec: the HTTP handlers.  net/http runs each request's handler on a     *)
(* goroutine of its own; the handlers share the one Nav.  A handler is cut *)
(* at its calls into the engine: an action ends with the handler inside    *)
(* the next engine call (loc.inq is the NavMeshQuery the call runs on) and *)
(* the following action starts with that call's return.  The locals of a   *)
(* handler that has returned are gone (NoLoc).  The initial state is the   *)
(* one main reaches when it calls ListenAndServe: NewNav has returned and  *)
(* the process runs.                                                       *)
(***************************************************************************)
SrvInit ==
    /\ nav = NewNav /\ running = TRUE /\ exitBy = 0
    /\ pc = [r \in Reqs |-> "idle"]
    /\ body = [r \in Reqs |-> NoBody]
    /\ loc = [r \in Reqs |-> NoLoc]
    /\ resp = [r \in Reqs |-> NoResp]
    /\ log = [r \in Reqs |-> NoLog]
    /\ CoordIdle /\ LoadIdle

\* check(err) with an error: os.Exit(-1), on behalf of request r
Exit(r) == running' = FALSE /\ exitBy' = r

\* RequestPoint with the vector converted a second time
RequestPointTwice(v) == FromWowCoords(FromWowCoords(Vector3ToVec3(v)))

\* a request point brought to the engine's frame (lines 116, 117, 141)
RequestPoint(v) == FromWowCoords(Vector3ToVec3(v))

\* an engine point brought to the caller's frame (lines 123, 143)
ResponsePoint(v) == Vec3ToVector3(ToWowCoords(v))

\* the requests inside FindPath on query q, other than r
InFindPath(r, q) == {o \in Reqs \ {r} : pc[o] = "findPath" /\ loc[o].inq = q}

\* HandleGetPath up to GetPath's first FindNearestPoly
HandleGetPath(r) ==
    /\ running /\ pc[r] = "idle"
    /\ \E b \in PathBodies :
         /\ body' = [body EXCEPT ![r] = b]
         /\ IF ~b.ok
            THEN /\ resp' = [resp EXCEPT ![r] =
                        [status |-> 400, raw |-> ErrorBody(b.err), points |-> <<>>]]
                 /\ pc' = [pc EXCEPT ![r] = "done"]
                 /\ UNCHANGED <<loc, log>>
            ELSE LET start == RequestPoint(b.start)
                     end   == RequestPoint(b.end)
                 IN  /\ loc' = [loc EXCEPT ![r] = [@ EXCEPT !.start = start,
                                                            !.end = end,
                                                            !.inq = nav.query.id]]
                     /\ log' = [log EXCEPT ![r] = [@ EXCEPT
                                   !.engineIn = Append(@, start), !.calls = @ + 1]]
                     /\ pc' = [pc EXCEPT ![r] = "snapStart"]
                     /\ UNCHANGED resp
    /\ UNCHANGED <<nav, running, exitBy, coordVars, loadVars>>

\* GetPath: the start polygon is resolved and checked; FindNearestPoly(end)
SnapStartReturns(r) ==
    /\ running /\ pc[r] = "snapStart"
    /\ LET out == FindNearestPoly(nav.mesh, loc[r].start, nav.extents, nav.filter)
       IN  IF StatusFailed(out.status)
           THEN /\ Exit(r)
                /\ log' = [log EXCEPT ![r].failed = TRUE]
                /\ UNCHANGED <<pc, loc>>
           ELSE IF ~IsValidPolyRef(nav.mesh, out.ref)
           THEN /\ Exit(r)
                /\ UNCHANGED <<pc, loc, log>>
           ELSE /\ loc' = [loc EXCEPT ![r].startRef = out.ref]
                /\ log' = [log EXCEPT ![r] = [@ EXCEPT
                              !.engineIn = Append(@, loc[r].end), !.calls = @ + 1]]
                /\ pc' = [pc EXCEPT ![r] = "snapEnd"]
                /\ UNCHANGED <<running, exitBy>>
    /\ UNCHANGED <<nav, body, resp, coordVars, loadVars>>

\* GetPath: the end polygon is resolved; line 235 checks startRef; FindPath
SnapEndReturns(r) ==
    /\ running /\ pc[r] = "snapEnd"
    /\ LET out == FindNearestPoly(nav.mesh, loc[r].end, nav.extents, nav.filter)
           others == InFindPath(r, loc[r].inq)
       IN  IF StatusFailed(out.status)
           THEN /\ Exit(r)
                /\ log' = [log EXCEPT ![r].failed = TRUE]
                /\ UNCHANGED <<pc, loc>>
           ELSE IF ~IsValidPolyRef(nav.mesh, loc[r].startRef)
           THEN /\ Exit(r)
                /\ UNCHANGED <<pc, loc, log>>
           ELSE /\ loc' = [o \in Reqs |->
                             IF o = r THEN [loc[r] EXCEPT !.endRef = out.ref,
                                                          !.raced = others # {}]
                             ELSE IF o \in others THEN [loc[o] EXCEPT !.raced = TRUE]
                             ELSE loc[o]]
                /\ log' = [log EXCEPT ![r] = [@ EXCEPT
                              !.engineIn = @ \o <<loc[r].start, loc[r].end>>,
                              !.calls = @ + 1]]
                /\ pc' = [pc EXCEPT ![r] = "findPath"]
                /\ UNCHANGED <<running, exitBy>>
    /\ UNCHANGED <<nav, body, resp, coordVars, loadVars>>

\* GetPath returns the corridor; GetStraightPath returns the empty path for
\* an empty corridor, and else calls FindStraightPath
FindPathReturns(r) ==
    /\ running /\ pc[r] = "findPath"
    /\ \E out \in (IF loc[r].raced
                   THEN RacedFindPath(nav.mesh, loc[r].startRef, loc[r].endRef, maxPolys)
                   ELSE {FindPath(nav.mesh, loc[r].startRef, loc[r].endRef, maxPolys)}) :
         IF out.status = "panic"
         THEN \* net/http recovers the handler's panic and closes the connection
              /\ pc' = [pc EXCEPT ![r] = "done"]
              /\ loc' = [loc EXCEPT ![r] = NoLoc]
              /\ UNCHANGED <<running, exitBy, resp, log>>
         ELSE IF StatusFailed(out.status)
         THEN /\ Exit(r)
              /\ log' = [log EXCEPT ![r].failed = TRUE]
              /\ UNCHANGED <<pc, loc, resp>>
         ELSE IF Len(out.path) = 0
         THEN /\ resp' = [resp EXCEPT ![r] =
                     [status |-> 200, raw |-> <<>>, points |-> <<>>]]
              /\ pc' = [pc EXCEPT ![r] = "done"]
              /\ loc' = [loc EXCEPT ![r] = NoLoc]
              /\ UNCHANGED <<running, exitBy, log>>
         ELSE /\ loc' = [loc EXCEPT ![r].path = out.path]
              /\ log' = [log EXCEPT ![r] = [@ EXCEPT
                            !.engineIn = @ \o <<loc[r].start, loc[r].end>>,
                            !.calls = @ + 1]]
              /\ pc' = [pc EXCEPT ![r] = "straight"]
              /\ UNCHANGED <<running, exitBy, resp>>
    /\ UNCHANGED <<nav, body, coordVars, loadVars>>

\* GetStraightPath returns spath[:count]; HandleGetPath converts and encodes it
StraightPathReturns(r) ==
    /\ running /\ pc[r] = "straight"
    /\ LET out == FindStraightPath(nav.mesh, loc[r].start, loc[r].end,
                                   loc[r].path, maxPolys)
       IN  IF StatusFailed(out.status)
           THEN /\ Exit(r)
                /\ log' = [log EXCEPT ![r].failed = TRUE]
                /\ UNCHANGED <<pc, loc, resp>>
           ELSE /\ resp' = [resp EXCEPT ![r] =
                       [status |-> 200, raw |-> <<>>,
                        points |-> [i \in 1..Len(out.pts) |-> ResponsePoint(out.pts[i])]]]
                /\ log' = [log EXCEPT ![r].engineOut = out.pts]
                /\ loc' = [loc EXCEPT ![r] = NoLoc]
                /\ pc' = [pc EXCEPT ![r] = "done"]
                /\ UNCHANGED <<running, exitBy>>
    /\ UNCHANGED <<nav, body, coordVars, loadVars>>

\* HandleGetClosestPoints up to the first GetClosestPoint's FindNearestPoly
HandleGetClosestPoints(r) ==
    /\ running /\ pc[r] = "idle"
    /\ \E b \in ClosestBodies :
         /\ body' = [body EXCEPT ![r] = b]
         /\ IF ~b.ok
            THEN /\ resp' = [resp EXCEPT ![r] =
                        [status |-> 400, raw |-> ErrorBody(b.err), points |-> <<>>]]
                 /\ pc' = [pc EXCEPT ![r] = "done"]
                 /\ UNCHANGED <<loc, log>>
            ELSE IF Len(b.pts) = 0
            THEN /\ resp' = [resp EXCEPT ![r] =
                        [status |-> 200, raw |-> <<>>, points |-> <<>>]]
                 /\ pc' = [pc EXCEPT ![r] = "done"]
                 /\ UNCHANGED <<loc, log>>
            ELSE LET in == RequestPoint(b.pts[1])
                 IN  /\ loc' = [loc EXCEPT ![r] = [@ EXCEPT !.start = in, !.i = 1,
                                                            !.inq = nav.query.id]]
                     /\ log' = [log EXCEPT ![r] = [@ EXCEPT
                                   !.engineIn = Append(@, in), !.calls = @ + 1]]
                     /\ pc' = [pc EXCEPT ![r] = "closest"]
                     /\ UNCHANGED resp
    /\ UNCHANGED <<nav, running, exitBy, coordVars, loadVars>>

\* GetClosestPoint returns for point i; the loop goes on to point i+1 or the
\* handler encodes res
ClosestPointReturns(r) ==
    /\ running /\ pc[r] = "closest"
    /\ LET out == FindNearestPoly(nav.mesh, loc[r].start, nav.extents, nav.filter)
           i   == loc[r].i
           res == Append(loc[r].res, ResponsePoint(out.pt))
       IN  IF StatusFailed(out.status)
           THEN /\ Exit(r)
                /\ log' = [log EXCEPT ![r].failed = TRUE]
                /\ UNCHANGED <<pc, loc, resp>>
           ELSE IF ~IsValidPolyRef(nav.mesh, out.ref)
           THEN /\ Exit(r)
                /\ UNCHANGED <<pc, loc, resp, log>>
           ELSE IF i < Len(body[r].pts)
           THEN LET in == RequestPoint(body[r].pts[i + 1])
                IN  /\ loc' = [loc EXCEPT ![r] = [@ EXCEPT !.start = in, !.i = i + 1,
                                                           !.res = res]]
                    /\ log' = [log EXCEPT ![r] = [@ EXCEPT
                                  !.engineIn = Append(@, in),
                                  !.engineOut = Append(@, out.pt),
                                  !.calls = @ + 1]]
                    /\ UNCHANGED <<pc, resp, running, exitBy>>
           ELSE /\ resp' = [resp EXCEPT ![r] =
                       [status |-> 200, raw |-> <<>>, points |-> res]]
                /\ loc' = [loc EXCEPT ![r] = NoLoc]
                /\ log' = [log EXCEPT ![r].engineOut = Append(@, out.pt)]
                /\ pc' = [pc EXCEPT ![r] = "done"]
                /\ UNCHANGED <<running, exitBy>>
    /\ UNCHANGED <<nav, body, coordVars, loadVars>>

Next ==
    \E r \in Reqs :
        \/ HandleGetPath(r)
        \/ SnapStartReturns(r)
        \/ SnapEndReturns(r)
        \/ FindPathReturns(r)
        \/ StraightPathReturns(r)
        \/ HandleGetClosestPoints(r)
        \/ ClosestPointReturns(r)

Spec == SrvInit /\ [][Next]_vars

(***************************************************************************)
(* Claims about the handlers (Spec).                                       *)
(***************************************************************************)
\* the frames, written out: a caller point in the engine's frame, and back
ModelFrame(v) == <<v.Y, v.Z, v.X>>

CallerFrame(p) == [X |-> p[3], Y |-> p[1], Z |-> p[2]]

\* a path request with no polygon near its start or its end, or with no
\* corridor between its two polygons
NoPathCase(b) ==
    LET s == FindNearestPoly(World, ModelFrame(b.start), NewNav.extents, NewNav.filter)
        e == FindNearestPoly(World, ModelFrame(b.end), NewNav.extents, NewNav.filter)
    IN  \/ s.ref = 0
        \/ e.ref = 0
        \/ FindPath(World, s.ref, e.ref, maxPolys).path = <<>>

\* C1: a path request with no walkable polygon near its start or end, or with
\* no corridor between its polygons, never ends the process, and is answered
\* with status 200 and an empty array.
C1_NoPathIsEmptyNeverFatal ==
    \A r \in Reqs :
        (body[r].kind = "path" /\ body[r].ok /\ NoPathCase(body[r])) =>
            /\ exitBy # r
            /\ pc[r] = "done" => (resp[r].status = 200 /\ resp[r].points = <<>>)

\* C2: a well-formed /closest request of N points never ends the process and
\* is answered with exactly N entries, whether or not each point has a surface
\* within the extents.
C2_ClosestLengthPreserved ==
    \A r \in Reqs :
        (body[r].kind = "closest" /\ body[r].ok) =>
            /\ exitBy # r
            /\ pc[r] = "done" =>
                  (resp[r].status = 200 /\ Len(resp[r].points) = Len(body[r].pts))

\* C4: no NavMeshQuery is in use by two requests in flight at the same time.
C4_OwnQueryContext ==
    \A r1 \in Reqs : \A r2 \in Reqs \ {r1} :
        (loc[r1].inq # 0 /\ loc[r2].inq # 0) => loc[r1].inq # loc[r2].inq

\* C5: a failed status of the engine in a request leaves the process running.
C5_FailedStatusIsRequestScoped ==
    \A r \in Reqs : log[r].failed => (running /\ exitBy # r)

\* C7: every point an engine call of a request sees is the request's point
\* converted once to the model frame, whichever call reuses it, and every point
\* of the response is the engine's point converted once to the caller frame.
C7_ConvertedOnceEachWay ==
    \A r \in Reqs :
        /\ body[r].kind = "path" =>
              \A k \in 1..Len(log[r].engineIn) :
                  log[r].engineIn[k] =
                      ModelFrame(IF k % 2 = 1 THEN body[r].start ELSE body[r].end)
        /\ body[r].kind = "closest" =>
              /\ \A k \in 1..Len(log[r].engineIn) :
                     log[r].engineIn[k] = ModelFrame(body[r].pts[k])
              /\ Len(loc[r].res) <= Len(log[r].engineOut)
              /\ \A k \in 1..Len(loc[r].res) :
                     loc[r].res[k] = CallerFrame(log[r].engineOut[k])
        /\ (pc[r] = "done" /\ resp[r].status = 200) =>
              /\ Len(resp[r].points) = Len(log[r].engineOut)
              /\ \A k \in 1..Len(resp[r].points) :
                     resp[r].points[k] = CallerFrame(log[r].engineOut[k])

C7_Witness ==
    \E r1 \in Reqs : \E r2 \in Reqs :
        /\ pc[r1] = "done" /\ body[r1].kind = "path" /\ Len(resp[r1].points) = 2
        /\ Len(log[r1].engineIn) = 6
        /\ pc[r2] = "done" /\ body[r2].kind = "closest" /\ Len(resp[r2].points) = 2

ErrorKey == <<"e", "r", "r", "o", "r">>

\* C8: a body that does not decode is answered with status 400 and a JSON
\* object with an "error" key, and no engine call is made for the request.
C8_MalformedBodyRejected ==
    \A r \in Reqs :
        (pc[r] = "done" /\ body[r].kind # "none" /\ ~body[r].ok) =>
            /\ resp[r].status = 400
            /\ IsJsonObjectWithKey(resp[r].raw, ErrorKey)
            /\ log[r].calls = 0

\* the part of C8 about the status and the engine alone
C8_StatusAndNoEngineCall ==
    \A r \in Reqs :
        (body[r].kind # "none" /\ ~body[r].ok) =>
            (pc[r] = "done" /\ resp[r].status = 400 /\ log[r].calls = 0)

\* C9: FindPath is called only with a start and an end polygon that were
\* each found valid in the attached mesh.
C9_FindPathOnlyWithValidRefs ==
    \A r \in Reqs :
        pc[r] = "findPath" =>
            /\ IsValidPolyRef(nav.mesh, loc[r].startRef)
            /\ IsValidPolyRef(nav.mesh, loc[r].endRef)

\* two requests are inside FindPath on the one query, so their results are
\* whatever the race leaves
RaceReached == \E r \in Reqs : loc[r].raced

(***************************************************************************)
(* SpecLoad: loadMap.  The file system holds the parameters file or not,   *)
(* and tile files by name; a tile file has its MMTileHeader (is its magic  *)
(* the expected one, is its version) and its payload (as long as the       *)
(* header's Size says, or shorter).  A name is the text after the base     *)
(* path, without the extension, as a sequence of digits.  The payload of a *)
(* file is the tile of that file, named as the file is.                    *)
(***************************************************************************)
GridLimit == 64

MapId == <<0, 0, 0>>

\* %d
RECURSIVE Decimal(_)
Decimal(n) == IF n < 10 THEN <<n>> ELSE Append(Decimal(n \div 10), n % 10)

\* fmt.Sprintf("%s%s%d%d.mmtile", path, mapId, x, y)
TileMapFileName(x, y) == MapId \o Decimal(x) \o Decimal(y)

\* the grid coordinates a map of the model may have tiles for
PopulatedCoords == {<<1, 1>>, <<1, 11>>, <<32, 48>>}

TileNames == {TileMapFileName(c[1], c[2]) : c \in PopulatedCoords}

TileFiles == [magicOk : BOOLEAN, versionOk : BOOLEAN, whole : BOOLEAN]

\* mesh.AddTile: the payload's tile is attached unless its place in the mesh
\* is taken already (the same payload attached before)
AddTile(m, data) ==
    IF \E i \in 1..Len(m) : m[i].tile = data.tile
    THEN [status |-> "failed", mesh |-> m]
    ELSE [status |-> "success", mesh |-> Append(m, data)]

LoadInit ==
    /\ \E present \in SUBSET TileNames :
         \E params \in BOOLEAN :
           \E tiles \in [present -> TileFiles] :
             fs = [params |-> params, tiles |-> tiles]
    /\ lx = 0 /\ ly = 0 /\ mesh = <<>> /\ opened = <<>>
    /\ loadpc = "start"
    /\ CoordIdle /\ SrvIdle

\* lines 252-269: the parameters file is opened and read, the mesh initialised
LoadParams ==
    /\ loadpc = "start"
    /\ IF fs.params
       THEN loadpc' = "tiles" /\ lx' = 1 /\ ly' = 1
       ELSE loadpc' = "exited" /\ UNCHANGED <<lx, ly>>
    /\ UNCHANGED <<fs, mesh, opened, coordVars, srvVars>>

\* y++, and x++ at the end of a row
NextCell ==
    IF ly + 1 < GridLimit
    THEN lx' = lx /\ ly' = ly + 1
    ELSE lx' = lx + 1 /\ ly' = 1

\* lines 273-277: no file of this name, continue
SkipTile ==
    /\ loadpc = "tiles" /\ lx < GridLimit
    /\ TileMapFileName(lx, ly) \notin DOMAIN fs.tiles
    /\ NextCell
    /\ UNCHANGED <<fs, mesh, opened, loadpc, coordVars, srvVars>>

\* lines 279-293: the file is opened, its header read, header.Size bytes of
\* payload read, and the payload handed to AddTile
LoadTile ==
    /\ loadpc = "tiles" /\ lx < GridLimit
    /\ TileMapFileName(lx, ly) \in DOMAIN fs.tiles
    /\ LET name   == TileMapFileName(lx, ly)
           f      == fs.tiles[name]
           data   == [tile |-> name]
           out    == AddTile(mesh, data)
       IN  /\ opened' = Append(opened, name)
           /\ IF ~f.whole
              THEN \* io.ReadFull: unexpected EOF
                   loadpc' = "exited" /\ UNCHANGED <<mesh, lx, ly>>
              ELSE IF StatusFailed(out.status)
              THEN loadpc' = "exited" /\ UNCHANGED <<mesh, lx, ly>>
              ELSE mesh' = out.mesh /\ NextCell /\ UNCHANGED loadpc
    /\ UNCHANGED <<fs, coordVars, srvVars>>

\* line 297 and main: the mesh is returned and the listener starts
LoadDone ==
    /\ loadpc = "tiles" /\ lx = GridLimit
    /\ loadpc' = "serving"
    /\ UNCHANGED <<fs, lx, ly, mesh, opened, coordVars, srvVars>>

LoadNext == LoadParams \/ SkipTile \/ LoadTile \/ LoadDone

SpecLoad == LoadInit /\ [][LoadNext]_vars

Valid(f) == f.magicOk /\ f.versionOk

\* C3: a payload is handed to AddTile only once its header's magic and version
\* were found to match, and a tile file with a corrupt magic or version keeps
\* the service from accepting requests.
C3_OnlyValidatedTilesAttached ==
    /\ \A i \in 1..Len(mesh) : Valid(fs.tiles[mesh[i].tile])
    /\ loadpc = "serving" => \A n \in DOMAIN fs.tiles : Valid(fs.tiles[n])

\* C10: no tile file is opened or attached twice, and a map whose tile files
\* are all valid (and whole) loads.
C10_EachTileFileOnce ==
    /\ \A i \in 1..Len(opened) : \A j \in 1..Len(opened) :
           opened[i] = opened[j] => i = j
    /\ \A i \in 1..Len(mesh) : \A j \in 1..Len(mesh) :
           mesh[i].tile = mesh[j].tile => i = j
    /\ (fs.params /\ \A n \in DOMAIN fs.tiles : Valid(fs.tiles[n]) /\ fs.tiles[n].whole)
           => loadpc # "exited"

====
